---- MODULE Spec2Model ----
(***************************************************************************)
(* KuduGrab: the capture session of ScreenCaptureApp (src/KuduGrab.py).    *)
(*                                                                         *)
(* The program is single threaded.  A handler runs until it returns or     *)
(* until it calls QApplication.processEvents(); at that call every event   *)
(* the window system has queued (pointer and key events of visible         *)
(* overlays, button clicks, due timers) may be dispatched re-entrantly     *)
(* before the handler goes on.  The variable stack holds the handlers      *)
(* suspended at such a call, innermost last; one step of the model is a    *)
(* handler segment between two processEvents() calls.                      *)
(***************************************************************************)
EXTENDS Integers, Sequences, FiniteSets, TLC

\* ---------------------------------------------------------------- bounds
MaxDepth == 2        \* handlers suspended in processEvents() at a time
MaxSessions == 2     \* capture sessions begun in one run
DeepSessions == 1    \* sessions begun up to which MaxDepth handlers are
                     \* suspended at a time; one handler fewer after them
LiveSessions == 1    \* the same in the runs of SpecLive
SettingSessions == 0 \* sessions begun up to which the user changes the
                     \* output mode or the size

\* ------------------------------------------------------------- constants
MinSize == 10        \* "width > 10 and height > 10"
ReleaseMin == 10     \* "width < 10 or height < 10" in mouseReleaseEvent
DefaultOverlayW == 800   \* _create_overlays(self, width=800, height=600)
DefaultOverlayH == 600

\* ------------------------------------------------------------ basic data
None == <<>>
Some(v) == <<v>>

Range(q) == {q[i] : i \in 1..Len(q)}

Min(a, b) == IF a < b THEN a ELSE b

Max(a, b) == IF a > b THEN a ELSE b

Abs(a) == IF a < 0 THEN 0 - a ELSE a

Pt(px, py) == [x |-> px, y |-> py]

\* QPoint(): the default-constructed point
QPoint == Pt(0, 0)

\* QPoint.isNull(): both coordinates are 0
isNull(p) == p.x = 0 /\ p.y = 0

\* QApplication.screens(): the monitor layout, geometries in global
\* coordinates; the second monitor lies left of the primary one.
Screens == << [x |-> 0, y |-> 0, w |-> 40, h |-> 40],
              [x |-> -40, y |-> 0, w |-> 40, h |-> 40] >>

\* QRect.contains(QPoint)
contains(g, p) ==
    /\ g.x <= p.x /\ p.x <= g.x + g.w - 1
    /\ g.y <= p.y /\ p.y <= g.y + g.h - 1

\* QCursor.pos(): the positions the pointer takes in the model
CursorPositions ==
    { Pt(-20, 10), Pt(-10, 30), Pt(25, 30) }

\* where the user presses a button of the pointer
PressPositions == { Pt(-20, 10), Pt(25, 30) }

\* self.sizes: the entries of the W / H combo boxes
Sizes == {50, 60, 11}

\* the W, H pairs the user picks in the model
SizeChoices == { <<50, 60>>, <<11, 60>> }

OutputModes == {"clipboard", "fixed_location", "new_location"}

\* the output modes the user switches between in the model
ModeChoices == {"clipboard", "new_location"}

\* ------------------------------------------------------------- variables
VARIABLES
    is_overlay_operation_in_progress,   \* the busy guard
    is_capturing,
    capture_mode,
    global_begin, global_end,
    last_capture_begin, last_capture_end, last_capture_pixmap,
    show_last_frame,
    overlays,            \* self.overlays: list of widget references
    widgets,             \* the overlay widget objects that are referenced
    screenshots,         \* self.screenshots, entry i+1 for key i
    visible,             \* the host window is shown
    widthInput, heightInput,
    default_w, default_h,
    config,              \* what save_config last wrote
    output_mode,
    toggleFrameBtn, rapidCaptureBtn, captureBtn, fixedCaptureBtn, \* enabled
    timers,              \* pending singleShot(200, _create_overlays)
    stack,               \* handlers suspended in processEvents()
    sel_set,             \* history: begin/end assigned by a pointer event
    sessions,            \* history: begin requests accepted so far
    lc_rect,             \* history: rectangle composited by the session
                         \*          that recorded last_capture_begin/end
    ev                   \* history: the handler segment that ran last and
                         \*   what it did: fin (the points finish_capture
                         \*   was given and the rectangle it size-checked),
                         \*   composed (the rectangle it composited) and
                         \*   sink (the image it handed to the output)

VARIABLES
    job                  \* one run of the compositing code or of the file
                         \*   naming code on given inputs (NoJob: none)

appvars == << is_overlay_operation_in_progress, is_capturing, capture_mode,
           global_begin, global_end, last_capture_begin, last_capture_end,
           last_capture_pixmap, show_last_frame, overlays, widgets,
           screenshots, visible, widthInput, heightInput, default_w,
           default_h, config, output_mode, toggleFrameBtn, rapidCaptureBtn,
           captureBtn, fixedCaptureBtn, timers, stack, sel_set, sessions,
           lc_rect,
           ev >>

vars == << appvars, job >>

NoJob == [kind |-> "none"]

\* The state as one record, so that a handler is a function of the state.
Cur ==
    [ busy |-> is_overlay_operation_in_progress,
      is_capturing |-> is_capturing,
      capture_mode |-> capture_mode,
      global_begin |-> global_begin,
      global_end |-> global_end,
      last_capture_begin |-> last_capture_begin,
      last_capture_end |-> last_capture_end,
      last_capture_pixmap |-> last_capture_pixmap,
      show_last_frame |-> show_last_frame,
      overlays |-> overlays,
      widgets |-> widgets,
      screenshots |-> screenshots,
      visible |-> visible,
      widthInput |-> widthInput,
      heightInput |-> heightInput,
      default_w |-> default_w,
      default_h |-> default_h,
      config |-> config,
      output_mode |-> output_mode,
      toggleFrameBtn |-> toggleFrameBtn,
      rapidCaptureBtn |-> rapidCaptureBtn,
      captureBtn |-> captureBtn,
      fixedCaptureBtn |-> fixedCaptureBtn,
      timers |-> timers,
      stack |-> stack,
      sel_set |-> sel_set,
      sessions |-> sessions,
      lc_rect |-> lc_rect,
      ev |-> ev ]

\* Widget objects live as long as self.overlays or a suspended
\* _cleanup_overlays (its copy overlays_to_close) refers to them.
Refs(s) ==
    Range(s.overlays) \cup
    UNION { Range(s.stack[i].todo) : i \in 1..Len(s.stack) }

Collect(s) ==
    [s EXCEPT !.widgets =
        [i \in (DOMAIN s.widgets) \cap Refs(s) |-> s.widgets[i]]]

\* The next state is the record t.
Becomes(t0) ==
    LET t == Collect(t0) IN
    /\ is_overlay_operation_in_progress' = t.busy
    /\ is_capturing' = t.is_capturing
    /\ capture_mode' = t.capture_mode
    /\ global_begin' = t.global_begin
    /\ global_end' = t.global_end
    /\ last_capture_begin' = t.last_capture_begin
    /\ last_capture_end' = t.last_capture_end
    /\ last_capture_pixmap' = t.last_capture_pixmap
    /\ show_last_frame' = t.show_last_frame
    /\ overlays' = t.overlays
    /\ widgets' = t.widgets
    /\ screenshots' = t.screenshots
    /\ visible' = t.visible
    /\ widthInput' = t.widthInput
    /\ heightInput' = t.heightInput
    /\ default_w' = t.default_w
    /\ default_h' = t.default_h
    /\ config' = t.config
    /\ output_mode' = t.output_mode
    /\ toggleFrameBtn' = t.toggleFrameBtn
    /\ rapidCaptureBtn' = t.rapidCaptureBtn
    /\ captureBtn' = t.captureBtn
    /\ fixedCaptureBtn' = t.fixedCaptureBtn
    /\ timers' = t.timers
    /\ stack' = t.stack
    /\ sel_set' = t.sel_set
    /\ sessions' = t.sessions
    /\ lc_rect' = t.lc_rect
    /\ ev' = t.ev
    /\ job' = job

\* ------------------------------------------------------------------ Init
\* ScreenCaptureApp.__init__ followed by initUI, with the configuration
\* file holding Sizes and the defaults 50 x 60, which the combo boxes show.
InitApp ==
    /\ is_overlay_operation_in_progress = FALSE
    /\ is_capturing = FALSE
    /\ capture_mode = "none"
    /\ global_begin = QPoint
    /\ global_end = QPoint
    /\ last_capture_begin = None
    /\ last_capture_end = None
    /\ last_capture_pixmap = None
    /\ show_last_frame = FALSE
    /\ overlays = <<>>
    /\ widgets = [i \in {} |-> 0]
    /\ screenshots = <<>>
    /\ visible = TRUE
    /\ widthInput = 50
    /\ heightInput = 60
    /\ default_w = 50
    /\ default_h = 60
    /\ config = [default_w |-> 50, default_h |-> 60]
    /\ output_mode = "clipboard"
    /\ toggleFrameBtn = FALSE
    /\ rapidCaptureBtn = FALSE
    /\ captureBtn = TRUE
    /\ fixedCaptureBtn = TRUE
    /\ timers = <<>>
    /\ stack = <<>>
    /\ sel_set = [b |-> FALSE, e |-> FALSE]
    /\ sessions = 0
    /\ lc_rect = None
    /\ ev = [h |-> "__init__", out |-> "shown", fin |-> None,
             composed |-> None, sink |-> None, io |-> FALSE, nb |-> FALSE]

Init == InitApp /\ job = NoJob

\* ------------------------------------------------------------ primitives
Top(s) == s.stack[Len(s.stack)]

Pop(s) == [s EXCEPT !.stack = SubSeq(@, 1, Len(@) - 1)]

Push(s, f) == [s EXCEPT !.stack = Append(@, f)]

\* A handler suspended in processEvents(): where it goes on (pc, and for a
\* _cleanup_overlays loop the overlays still to close and the code k that
\* follows the call), its locals width/height, the handler h0 it belongs
\* to, and two history flags: io, an image was composited or delivered, or
\* LastCapture was assigned, since h0 was dispatched; nb, a begin request
\* was accepted since h0 was dispatched.
Frame(pc, todo, k, w, h, io, h0) ==
    [pc |-> pc, todo |-> todo, k |-> k, w |-> w, h |-> h, io |-> io,
     nb |-> FALSE, h0 |-> h0]

Event(s, h, out) == [s EXCEPT !.ev.h = h, !.ev.out = out]

\* history: the handler of frame f leaves the session by the path out
Exit(s, f, out) ==
    [s EXCEPT !.ev.h = f.h0, !.ev.out = out, !.ev.io = f.io, !.ev.nb = f.nb]

\* the state a handler segment starts from: nothing observed yet
Fresh(s) ==
    [s EXCEPT !.ev = [h |-> "none", out |-> "none", fin |-> None,
                      composed |-> None, sink |-> None, io |-> FALSE,
                      nb |-> FALSE]]

\* a show() that does nothing
show_nothing(s) == s

\* QWidget.show() / QWidget.hide() of the host window
show(s) == [s EXCEPT !.visible = TRUE]

hide(s) == [s EXCEPT !.visible = FALSE]

\* history: every suspended handler has now seen output or a LastCapture
\* assignment happen underneath it
Touch(s) ==
    [s EXCEPT !.stack = [i \in 1..Len(s.stack) |->
                            [s.stack[i] EXCEPT !.io = TRUE]]]

\* history: a begin request is accepted underneath every suspended handler
Began(s) ==
    [s EXCEPT !.stack = [i \in 1..Len(s.stack) |->
                            [s.stack[i] EXCEPT !.nb = TRUE]]]

\* overlay.hide(); overlay.close()
CloseWidget(s, id) ==
    IF id \in DOMAIN s.widgets
    THEN [s EXCEPT !.widgets[id].vis = FALSE]
    ELSE s

\* a fresh object identity
NewId(s) ==
    CHOOSE i \in 1..(Cardinality(DOMAIN s.widgets) + 1) :
        /\ i \notin DOMAIN s.widgets
        /\ \A j \in 1..(i - 1) : j \in DOMAIN s.widgets

AddWidget(s, id, wd) ==
    [s EXCEPT !.widgets =
        [i \in (DOMAIN s.widgets) \cup {id} |->
            IF i = id THEN wd ELSE s.widgets[i]]]

\* the monitor the host window is on
HostScreen == 1

\* history: the tool's own UI is on monitor i when it is grabbed
OwnUiOn(s, i) ==
    \/ s.visible /\ i = HostScreen
    \/ \E id \in DOMAIN s.widgets :
          s.widgets[id].vis /\ s.widgets[id].screen = i

\* ----------------------------------------------------- _cleanup_overlays
\* the statements of _cleanup_overlays after its loop
PostCleanup(s) ==
    Collect([s EXCEPT
        !.overlays = <<>>,
        !.screenshots = <<>>,
        !.is_capturing = IF s.is_capturing /\ s.capture_mode # "rapid"
                         THEN FALSE ELSE s.is_capturing])

\* OverlayWidget.__init__
OverlayWidget(s, i, w, h) ==
    [kind |-> "capture", screen |-> i, vis |-> FALSE,
     mode |-> s.capture_mode, is_drawing |-> FALSE,
     timer |-> (s.capture_mode = "fixed"), fw |-> w, fh |-> h,
     b |-> QPoint, e |-> QPoint]

\* the overlay is shown first and the screen grabbed after it
GrabAndShow_shown_first(s, id, i) ==
    LET s1 == [s EXCEPT !.widgets[id].vis = TRUE]
    IN [s1 EXCEPT !.screenshots =
                      Append(@, [geometry |-> Screens[i],
                                 ui |-> OwnUiOn(s1, i),
                                 own |-> s1.widgets[id].vis])]

\* "Take screenshot" of screen i, then "Show overlay after we've prepared
\* its data"; own records whether the screen's new overlay id is already
\* shown when the screen is grabbed
GrabAndShow(s, id, i) ==
    [s EXCEPT !.screenshots = Append(@, [geometry |-> Screens[i],
                                         ui |-> OwnUiOn(s, i),
                                         own |-> s.widgets[id].vis]),
              !.widgets[id].vis = TRUE]

\* the loop of _create_overlays from screen i on; fail is the screen whose
\* grabWindow raises (0: none).  Returns the state and whether it raised.
RECURSIVE CreateLoop(_, _, _, _, _)
CreateLoop(s, i, w, h, fail) ==
    IF i > Len(Screens) THEN [st |-> s, raised |-> FALSE]
    ELSE
      LET id == NewId(s)
          s1 == [AddWidget(s, id, OverlayWidget(s, i, w, h))
                    EXCEPT !.overlays = Append(@, id)]
      IN IF fail = i THEN [st |-> s1, raised |-> TRUE]
         ELSE
           LET s2 == GrabAndShow(s1, id, i)
           IN CHOOSE r \in { CreateLoop(x, i + 1, w, h, fail) : x \in {s2} } :
                 TRUE

\* _create_overlays after its call of _cleanup_overlays
CreateOverlaysBody(s, f, fail) ==
    LET s0 == Collect([s EXCEPT !.overlays = <<>>, !.screenshots = <<>>])
        r == CreateLoop(s0, 1, f.w, f.h, fail)
    IN IF r.raised
       THEN Exit(show([r.st EXCEPT !.busy = FALSE]), f, "failed")
       ELSE Event([r.st EXCEPT !.is_capturing = TRUE],
                  "_create_overlays", "active")

\* the code that follows a call of _cleanup_overlays, by call site
After(s, f, fail) ==
    CASE f.k = "create" -> CreateOverlaysBody(s, f, fail)
      [] f.k = "finish_null" -> Exit(show(s), f, "empty")
      [] f.k = "finish_main" ->
            Push(Event([s EXCEPT !.is_capturing = FALSE,
                                 !.global_begin = QPoint,
                                 !.global_end = QPoint,
                                 !.sel_set = [b |-> FALSE, e |-> FALSE],
                                 !.toggleFrameBtn = TRUE,
                                 !.busy = FALSE], f.h0, "finishing"),
                 [f EXCEPT !.pc = "fin_pe1", !.todo = <<>>])
      [] f.k = "release_small" -> Exit(show(s), f, "too_small")
      [] f.k = "escape" ->
            Exit(show([s EXCEPT !.is_capturing = FALSE,
                                !.busy = FALSE]), f, "cancelled")

\* _cleanup_overlays called with the code k to follow: close the first
\* overlay and suspend in processEvents(), or go on at once when
\* self.overlays is empty
Cleanup(s, f, fail) ==
    IF s.overlays = <<>>
    THEN After(PostCleanup(s), f, fail)
    ELSE Push(Event(CloseWidget(s, Head(s.overlays)), f.h0, "teardown"),
              [f EXCEPT !.pc = "cleanup", !.todo = Tail(s.overlays)])

\* a suspended _cleanup_overlays goes on after processEvents()
CleanupNext(s, fail) ==
    LET f == Top(s)
        s1 == Pop(s)
    IN IF f.todo = <<>>
       THEN After(PostCleanup(s1), f, fail)
       ELSE Push(Event(CloseWidget(s1, Head(f.todo)), f.h0, "teardown"),
                 [f EXCEPT !.todo = Tail(f.todo)])

\* ------------------------------------------------------------ rectangles
Rect(x1, y1, x2, y2) ==
    [x1 |-> x1, y1 |-> y1, x2 |-> x2, y2 |-> y2,
     width |-> x2 - x1, height |-> y2 - y1]

\* capture_from_coordinates: "Get normalized capture dimensions"
NormalizedRect(b, e) ==
    Rect(Min(b.x, e.x), Min(b.y, e.y), Max(b.x, e.x), Max(b.y, e.y))

\* finish_capture: the same, followed by the reassignment of y2
FinishRect(b, e) ==
    Rect(Min(b.x, e.x), Min(b.y, e.y), Max(b.x, e.x),
         IF e.y < b.y THEN e.y ELSE Max(b.y, e.y))

\* the check with >= for >
ValidSelection_ge(r) == r.width >= MinSize /\ r.height >= MinSize

\* "Check if we have a valid selection"
ValidSelection(r) == r.width > MinSize /\ r.height > MinSize

\* ------------------------------------------------------------------ output
\* "Process according to output mode": fault = "write" is QPixmap.save
\* returning False, accept is the user confirming the save dialog
Deliver(s, r, shots, by, fault, accept) ==
    LET img == [to |-> s.output_mode, rect |-> r, shots |-> shots, by |-> by]
    IN CASE s.output_mode = "clipboard" ->
               Touch([s EXCEPT !.ev.sink = Some(img)])
         [] s.output_mode = "fixed_location" ->
               IF fault = "write" THEN s
               ELSE Touch([s EXCEPT !.ev.sink = Some(img)])
         [] OTHER ->
               IF accept /\ fault # "write"
               THEN Touch([s EXCEPT !.ev.sink = Some(img)])
               ELSE s

\* ------------------------------------------------------------ finish_capture
finish_capture(s, h0, fault, accept) ==
    LET b == s.global_begin
        e == s.global_end
        empty == isNull(b) \/ isNull(e)
        r == FinishRect(b, e)
        s0 == [s EXCEPT !.ev.fin = Some([b |-> b, e |-> e, set |-> s.sel_set,
                                         empty |-> empty, rect |-> r])]
    IN IF empty
       THEN Cleanup([s0 EXCEPT !.busy = FALSE],
                    Frame("cleanup", <<>>, "finish_null", 0, 0, FALSE, h0), 0)
       ELSE
         LET s1 == Touch([s0 EXCEPT !.last_capture_begin = Some(b),
                                    !.last_capture_end = Some(e),
                                    !.lc_rect = None])
             s2 == IF ValidSelection(r)
                   THEN Deliver(
                          [s1 EXCEPT
                             !.ev.composed =
                                 Some([by |-> "finish", rect |-> r,
                                       shots |-> s.screenshots]),
                             !.lc_rect = Some(r),
                             !.last_capture_pixmap = Some(r)],
                          r, s.screenshots, "finish", fault, accept)
                   ELSE s1
         IN Cleanup(s2, Frame("cleanup", <<>>, "finish_main", 0, 0, TRUE, h0),
                    0)

\* ------------------------------------------------- capture_from_coordinates
\* "Take screenshots directly instead of using stored ones"
GrabAll(s) ==
    [i \in 1..Len(Screens) |->
        [geometry |-> Screens[i], ui |-> OwnUiOn(s, i)]]

capture_from_coordinates(s, b, e, fault, accept) ==
    LET r == NormalizedRect(b, e)
    IN IF ValidSelection(r)
       THEN Event(Deliver(Touch([s EXCEPT
                             !.ev.composed =
                                 Some([by |-> "rapid", rect |-> r,
                                       shots |-> GrabAll(s)])]),
                          r, GrabAll(s), "rapid", fault, accept),
                  "start_rapid_capture", "captured")
       ELSE Event(s, "start_rapid_capture", "too_small")

\* ------------------------------------------------------ start_rapid_capture
\* the re-capture stores the normalized corners back into LastCapture
start_rapid_capture_restores(s, fault, accept) ==
    IF s.busy THEN Event(s, "start_rapid_capture", "busy")
    ELSE IF s.last_capture_begin = None \/ s.last_capture_end = None
    THEN Event(s, "start_rapid_capture", "no_previous")
    ELSE LET b == s.last_capture_begin[1]
             e == s.last_capture_end[1]
             r == NormalizedRect(b, e)
         IN capture_from_coordinates(
               [s EXCEPT !.global_begin = b, !.global_end = e,
                         !.sel_set = [b |-> FALSE, e |-> FALSE],
                         !.last_capture_begin = Some(Pt(r.x1, r.y1)),
                         !.last_capture_end = Some(Pt(r.x2, r.y2))],
               b, e, fault, accept)

start_rapid_capture(s, fault, accept) ==
    IF s.busy THEN Event(s, "start_rapid_capture", "busy")
    ELSE IF s.last_capture_begin = None \/ s.last_capture_end = None
    THEN Event(s, "start_rapid_capture", "no_previous")
    ELSE LET b == s.last_capture_begin[1]
             e == s.last_capture_end[1]
         IN capture_from_coordinates(
               [s EXCEPT !.global_begin = b, !.global_end = e,
                         !.sel_set = [b |-> FALSE, e |-> FALSE]],
               b, e, fault, accept)

\* ------------------------------------------------------ start_fixed_capture
\* "self.default_w = width ... save_config(...)"
SaveSize(s) ==
    [s EXCEPT !.default_w = s.widthInput,
              !.default_h = s.heightInput,
              !.config = [default_w |-> s.widthInput,
                          default_h |-> s.heightInput]]

\* start_fixed_capture once the guard let it pass
ArmFixed(s) ==
    Push(Event(hide([SaveSize(Began(s)) EXCEPT !.capture_mode = "fixed",
                                               !.busy = TRUE,
                                               !.sessions = @ + 1]),
               "start_fixed_capture", "armed"),
         Frame("sfc_pe", <<>>, "none", s.widthInput, s.heightInput,
               FALSE, "start_fixed_capture"))

\* the sizes are saved before the guard is looked at
start_fixed_capture_saves_first(s) ==
    IF s.busy THEN Event(SaveSize(s), "start_fixed_capture", "busy")
    ELSE ArmFixed(s)

start_fixed_capture(s) ==
    IF s.busy THEN Event(s, "start_fixed_capture", "busy")
    ELSE ArmFixed(s)

\* --------------------------------------------------- start_freehand_capture
start_freehand_capture(s) ==
    IF s.busy THEN Event(s, "start_freehand_capture", "busy")
    ELSE Push(Event(hide([Began(s) EXCEPT !.capture_mode = "freehand",
                                   !.busy = TRUE,
                                   !.sessions = @ + 1]),
                    "start_freehand_capture", "armed"),
              Frame("sfh_pe", <<>>, "none", DefaultOverlayW, DefaultOverlayH,
                    FALSE, "start_freehand_capture"))

\* start_*_capture returns without the singleShot call
Schedule_forgets(s) ==
    LET f == Top(s)
    IN Event(Pop(s), f.h0, "scheduled")

\* QTimer.singleShot(200, ...) after the processEvents() of start_*_capture
Schedule(s) ==
    LET f == Top(s)
    IN Event([Pop(s) EXCEPT !.timers = Append(@, [w |-> f.w, h |-> f.h])],
             f.h0, "scheduled")

\* ---------------------------------------------------------- _create_overlays
_create_overlays(s, w, h, fail) ==
    Cleanup(s, Frame("cleanup", <<>>, "create", w, h, FALSE,
                     "_create_overlays"), fail)

\* -------------------------------------------------------- toggle_last_frame
SimpleRectangleOverlay(s, i) ==
    [kind |-> "preview", screen |-> i, vis |-> TRUE, mode |-> "none",
     is_drawing |-> FALSE, timer |-> FALSE, fw |-> 0, fh |-> 0,
     b |-> s.last_capture_begin[1], e |-> s.last_capture_end[1]]

RECURSIVE PreviewLoop(_, _)
PreviewLoop(s, i) ==
    IF i > Len(Screens) THEN s
    ELSE LET id == NewId(s)
         IN PreviewLoop([AddWidget(s, id, SimpleRectangleOverlay(s, i))
                            EXCEPT !.overlays = Append(@, id)], i + 1)

RECURSIVE CloseAll(_, _)
CloseAll(s, q) ==
    IF q = <<>> THEN s ELSE CloseAll(CloseWidget(s, Head(q)), Tail(q))

\* the toggle loads LastCapture into the selection, as a re-capture does
toggle_last_frame_selects(s) ==
    IF \/ s.last_capture_begin = None \/ s.last_capture_end = None
       \/ isNull(s.last_capture_begin[1]) \/ isNull(s.last_capture_end[1])
    THEN Event(s, "toggle_last_frame", "no_previous")
    ELSE LET on == ~s.show_last_frame
             s1 == [s EXCEPT !.show_last_frame = on,
                             !.rapidCaptureBtn = on,
                             !.captureBtn = ~on,
                             !.fixedCaptureBtn = ~on,
                             !.global_begin = s.last_capture_begin[1],
                             !.global_end = s.last_capture_end[1]]
             s2 == Collect([CloseAll(s1, s1.overlays)
                               EXCEPT !.overlays = <<>>])
         IN Event(IF on THEN PreviewLoop(s2, 1) ELSE s2,
                  "toggle_last_frame", IF on THEN "on" ELSE "off")

\* the overlays are closed only when the preview is switched on
toggle_last_frame_leaves_previews(s) ==
    IF \/ s.last_capture_begin = None \/ s.last_capture_end = None
       \/ isNull(s.last_capture_begin[1]) \/ isNull(s.last_capture_end[1])
    THEN Event(s, "toggle_last_frame", "no_previous")
    ELSE LET on == ~s.show_last_frame
             s1 == [s EXCEPT !.show_last_frame = on,
                             !.rapidCaptureBtn = on,
                             !.captureBtn = ~on,
                             !.fixedCaptureBtn = ~on]
             s2 == Collect([CloseAll(s1, s1.overlays)
                               EXCEPT !.overlays = <<>>])
         IN Event(IF on THEN PreviewLoop(s2, 1) ELSE s1,
                  "toggle_last_frame", IF on THEN "on" ELSE "off")

\* the toggle leaves the Freehand and Fixed buttons as they are
toggle_last_frame_keeps_buttons(s) ==
    IF \/ s.last_capture_begin = None \/ s.last_capture_end = None
       \/ isNull(s.last_capture_begin[1]) \/ isNull(s.last_capture_end[1])
    THEN Event(s, "toggle_last_frame", "no_previous")
    ELSE LET on == ~s.show_last_frame
             s1 == [s EXCEPT !.show_last_frame = on,
                             !.rapidCaptureBtn = on]
             s2 == Collect([CloseAll(s1, s1.overlays)
                               EXCEPT !.overlays = <<>>])
         IN Event(IF on THEN PreviewLoop(s2, 1) ELSE s2,
                  "toggle_last_frame", IF on THEN "on" ELSE "off")

\* ScreenCaptureApp.toggle_last_frame
toggle_last_frame(s) ==
    IF \/ s.last_capture_begin = None \/ s.last_capture_end = None
       \/ isNull(s.last_capture_begin[1]) \/ isNull(s.last_capture_end[1])
    THEN Event(s, "toggle_last_frame", "no_previous")
    ELSE LET on == ~s.show_last_frame
             s1 == [s EXCEPT !.show_last_frame = on,
                             !.rapidCaptureBtn = on,
                             !.captureBtn = ~on,
                             !.fixedCaptureBtn = ~on]
             s2 == Collect([CloseAll(s1, s1.overlays)
                               EXCEPT !.overlays = <<>>])
         IN Event(IF on THEN PreviewLoop(s2, 1) ELSE s2,
                  "toggle_last_frame", IF on THEN "on" ELSE "off")

\* ------------------------------------------------------------ OverlayWidget
\* ok = FALSE: self.screen.geometry() raises (the monitor is gone)
mousePressEvent(s, id, pos, ok, fault, accept) ==
    LET wd == s.widgets[id]
    IN IF ~s.is_capturing THEN Event(s, "mousePressEvent", "ignored")
       ELSE IF ~ok THEN Event(s, "mousePressEvent", "logged")
       ELSE IF wd.mode = "fixed"
       THEN LET tl == Pt(pos.x - (wd.fw \div 2), pos.y - (wd.fh \div 2))
                br == Pt(tl.x + wd.fw - 1, tl.y + wd.fh - 1)
            IN finish_capture(
                 [s EXCEPT !.widgets[id].timer = FALSE,
                           !.global_begin = tl,
                           !.global_end = br,
                           !.sel_set = [b |-> TRUE, e |-> TRUE]],
                 "mousePressEvent", fault, accept)
       ELSE IF wd.mode = "freehand" /\ contains(Screens[wd.screen], pos)
       THEN Event([s EXCEPT !.global_begin = pos,
                            !.global_end = pos,
                            !.sel_set = [b |-> TRUE, e |-> TRUE],
                            !.widgets[id].is_drawing = TRUE],
                  "mousePressEvent", "pressed")
       ELSE Event(s, "mousePressEvent", "ignored")

\* a move during a drag takes the monitors' snapshots again
mouseMoveEvent_regrabs(s, id, pos, ok) ==
    LET wd == s.widgets[id]
    IN IF ~s.is_capturing THEN Event(s, "mouseMoveEvent", "ignored")
       ELSE IF ~ok THEN Event(s, "mouseMoveEvent", "logged")
       ELSE IF wd.mode = "freehand" /\ wd.is_drawing
       THEN Event([s EXCEPT !.global_end = pos, !.sel_set.e = TRUE,
                            !.screenshots = GrabAll(s)],
                  "mouseMoveEvent", "moved")
       ELSE Event(s, "mouseMoveEvent", "ignored")

\* a move updates the end point whether or not a press came before
mouseMoveEvent_untracked(s, id, pos, ok) ==
    LET wd == s.widgets[id]
    IN IF ~s.is_capturing THEN Event(s, "mouseMoveEvent", "ignored")
       ELSE IF ~ok THEN Event(s, "mouseMoveEvent", "logged")
       ELSE IF wd.mode = "freehand"
       THEN Event([s EXCEPT !.global_end = pos, !.sel_set.e = TRUE],
                  "mouseMoveEvent", "moved")
       ELSE Event(s, "mouseMoveEvent", "ignored")

mouseMoveEvent(s, id, pos, ok) ==
    LET wd == s.widgets[id]
    IN IF ~s.is_capturing THEN Event(s, "mouseMoveEvent", "ignored")
       ELSE IF ~ok THEN Event(s, "mouseMoveEvent", "logged")
       ELSE IF wd.mode = "freehand" /\ wd.is_drawing
       THEN Event([s EXCEPT !.global_end = pos, !.sel_set.e = TRUE],
                  "mouseMoveEvent", "moved")
       ELSE Event(s, "mouseMoveEvent", "ignored")

mouseReleaseEvent(s, id, pos, ok, fault, accept) ==
    LET wd == s.widgets[id]
    IN IF ~s.is_capturing THEN Event(s, "mouseReleaseEvent", "ignored")
       ELSE IF wd.mode = "freehand" /\ wd.is_drawing
       THEN LET s1 == [s EXCEPT !.widgets[id].is_drawing = FALSE,
                                !.global_end = pos,
                                !.sel_set.e = TRUE]
                width == Abs(pos.x - s.global_begin.x)
                height == Abs(pos.y - s.global_begin.y)
            IN IF ~ok
               THEN Event(show([s1 EXCEPT !.busy = FALSE]),
                          "mouseReleaseEvent", "error")
               ELSE IF width < ReleaseMin \/ height < ReleaseMin
               THEN Cleanup([s1 EXCEPT !.busy = FALSE],
                            Frame("cleanup", <<>>, "release_small", 0, 0,
                                  FALSE, "mouseReleaseEvent"), 0)
               ELSE finish_capture(s1, "mouseReleaseEvent", fault, accept)
       ELSE Event(s, "mouseReleaseEvent", "ignored")

\* Escape is handled whether or not a session is capturing
keyPressEvent_unguarded(s, id) ==
    Cleanup([s EXCEPT !.widgets[id].timer = FALSE],
            Frame("cleanup", <<>>, "escape", 0, 0, FALSE,
                  "keyPressEvent"), 0)

\* event.key() == Qt.Key_Escape
keyPressEvent(s, id) ==
    IF ~s.is_capturing THEN Event(s, "keyPressEvent", "ignored")
    ELSE Cleanup([s EXCEPT !.widgets[id].timer = FALSE],
                 Frame("cleanup", <<>>, "escape", 0, 0, FALSE,
                       "keyPressEvent"), 0)

\* update_timer's timeout, connected to QWidget.update(): the overlay is
\* repainted; paintEvent assigns nothing
update(s, id) == Event(s, "paintEvent", "ignored")

\* ------------------------------------------------------------ UI glue
set_output_mode(s, m) ==
    Event([s EXCEPT !.output_mode = m], "set_output_mode", m)

\* the user picks entries of the W and H combo boxes
SelectSize(s, w, h) ==
    Event([s EXCEPT !.widthInput = w, !.heightInput = h],
          "update_info_labels", "selected")

\* ---------------------------------------------------------------- actions
\* A step is taken when the handlers it leaves suspended fit the bound; a
\* handler that ignored its event (or only logged an exception) leaves the
\* state as it is.
Step(t) ==
    \E u \in {t} :
        IF u.ev.out \in {"ignored", "logged"}
        THEN UNCHANGED vars
        ELSE /\ Len(u.stack) <= (IF u.sessions <= DeepSessions
                                 THEN MaxDepth ELSE MaxDepth - 1)
             /\ Becomes(u)

\* history: a begin was accepted and its overlays are not created yet
Arming ==
    /\ is_overlay_operation_in_progress
    /\ \/ timers # <<>>
       \/ stack # <<>> /\ Top(Cur).pc \in {"sfc_pe", "sfh_pe"}

\* A button of the host is clicked: the host is shown, or the click was
\* queued before hide() and is dispatched while the session is arming.
ClickPossible == visible \/ Arming

\* what the environment does to an output: the write fails, or the user
\* cancels the save dialog
Outcomes ==
    { <<"none", TRUE>> } \cup
    (IF output_mode = "clipboard" THEN {} ELSE { <<"write", TRUE>> }) \cup
    (IF output_mode = "new_location" THEN { <<"none", FALSE>> } ELSE {})

\* the overlays whose update_timer is running
Tickers == {id \in DOMAIN widgets : widgets[id].timer}

VisibleOverlays(kind) ==
    {id \in DOMAIN widgets : widgets[id].vis /\ widgets[id].kind = kind}

ClickFreehand ==
    /\ ClickPossible /\ captureBtn
    /\ is_overlay_operation_in_progress \/ sessions < MaxSessions
    /\ Step(start_freehand_capture(Fresh(Cur)))

ClickFixed ==
    /\ ClickPossible /\ fixedCaptureBtn
    /\ is_overlay_operation_in_progress \/ sessions < MaxSessions
    /\ Step(start_fixed_capture(Fresh(Cur)))

ClickRapid ==
    /\ ClickPossible /\ rapidCaptureBtn
    /\ \E o \in Outcomes : Step(start_rapid_capture(Fresh(Cur), o[1], o[2]))

ClickToggle ==
    /\ ClickPossible /\ toggleFrameBtn
    /\ Step(toggle_last_frame(Fresh(Cur)))

\* SimpleRectangleOverlay.keyPressEvent
PreviewEscape ==
    /\ VisibleOverlays("preview") # {}
    /\ Step(toggle_last_frame(Fresh(Cur)))

SetOutputMode ==
    /\ visible /\ sessions <= SettingSessions
    /\ \E m \in ModeChoices \ {output_mode} :
          Step(set_output_mode(Fresh(Cur), m))

ChooseSize ==
    /\ visible /\ sessions <= SettingSessions
    /\ \E c \in SizeChoices \ {<<widthInput, heightInput>>} :
          Step(SelectSize(Fresh(Cur), c[1], c[2]))

\* the deferred callback of start_*_capture fires
TimerFires ==
    /\ timers # <<>>
    /\ \E fail \in 0..Len(Screens) :
          Step(_create_overlays([Fresh(Cur) EXCEPT !.timers = Tail(@)],
                                Head(timers).w, Head(timers).h, fail))

MousePress ==
    \E id \in VisibleOverlays("capture"), pos \in PressPositions :
       \/ Step(mousePressEvent(Fresh(Cur), id, pos, FALSE, "none", TRUE))
       \/ \E o \in Outcomes :
             Step(mousePressEvent(Fresh(Cur), id, pos, TRUE, o[1], o[2]))

MouseMove ==
    \E id \in VisibleOverlays("capture"), pos \in CursorPositions,
       ok \in BOOLEAN :
          Step(mouseMoveEvent(Fresh(Cur), id, pos, ok))

MouseRelease ==
    \E id \in VisibleOverlays("capture"), pos \in CursorPositions :
       \/ Step(mouseReleaseEvent(Fresh(Cur), id, pos, FALSE, "none", TRUE))
       \/ \E o \in Outcomes :
             Step(mouseReleaseEvent(Fresh(Cur), id, pos, TRUE, o[1], o[2]))

KeyEscape ==
    \E id \in VisibleOverlays("capture") : Step(keyPressEvent(Fresh(Cur), id))

\* the 50 ms update_timer of a Fixed-mode overlay fires
UpdateTick ==
    \E id \in Tickers \cap VisibleOverlays("capture") :
        Step(update(Fresh(Cur), id))

\* processEvents() returns to the handler suspended innermost
Resume ==
    /\ stack # <<>>
    /\ LET f == Top(Cur)
           s == Fresh(Cur)
       IN CASE f.pc = "cleanup" ->
                  \E fail \in (IF f.k = "create" /\ f.todo = <<>>
                               THEN 0..Len(Screens) ELSE {0}) :
                      Step(CleanupNext(s, fail))
            [] f.pc \in {"sfc_pe", "sfh_pe"} -> Step(Schedule(s))
            [] f.pc = "fin_pe1" ->
                  Step(Push(Exit(show(Pop(s)), f, "shown"),
                            [f EXCEPT !.pc = "fin_pe2"]))
            [] f.pc = "fin_pe2" ->
                  Step(Event(Pop(s), f.h0, "finished"))

Next ==
    \/ ClickFreehand
    \/ ClickFixed
    \/ ClickRapid
    \/ ClickToggle
    \/ PreviewEscape
    \/ SetOutputMode
    \/ ChooseSize
    \/ TimerFires
    \/ MousePress
    \/ MouseMove
    \/ MouseRelease
    \/ KeyEscape
    \/ UpdateTick
    \/ Resume

Spec == Init /\ [][Next]_vars

\* The same program when the event loop keeps running and the user does not
\* leave an Active session alone for ever: a due singleShot timer is
\* dispatched, processEvents() returns, and Escape is eventually pressed on
\* an overlay that takes it.
\* The runs are those with at most LiveSessions begin requests accepted.
NextLive ==
    \/ ClickFreehand /\ sessions' <= LiveSessions
    \/ ClickFixed /\ sessions' <= LiveSessions
    \/ ClickRapid
    \/ ClickToggle
    \/ PreviewEscape
    \/ SetOutputMode
    \/ ChooseSize
    \/ TimerFires
    \/ MousePress
    \/ MouseMove
    \/ MouseRelease
    \/ KeyEscape
    \/ UpdateTick
    \/ Resume

SpecLive ==
    /\ Init /\ [][NextLive]_vars
    /\ WF_vars(TimerFires)
    /\ WF_vars(Resume)
    /\ SF_vars(KeyEscape)

\* ------------------------------------------------------------ compositing
\* A pixel of an image: pixel (x, y) of the buffer grabbed from monitor m,
\* or the transparent pixel.
Transparent == [m |-> 0, x |-> 0, y |-> 0]

\* the pixmap is allocated and left as it is, not filled
QPixmap_unfilled(w, h) ==
    [p \in (0..(w - 1)) \X (0..(h - 1)) |-> [m |-> 0, x |-> p[1], y |-> p[2]]]

\* "selection = QPixmap(width, height); selection.fill(Qt.transparent)"
QPixmap(w, h) == [p \in (0..(w - 1)) \X (0..(h - 1)) |-> Transparent]

QRect(x, y, w, h) == [x |-> x, y |-> y, w |-> w, h |-> h]

\* the overlap loses its last column
intersected_narrow(a, b) ==
    LET l == Max(a.x, b.x)
        r == Min(a.x + a.w, b.x + b.w) - 1
        t == Max(a.y, b.y)
        u == Min(a.y + a.h, b.y + b.h)
    IN IF r <= l \/ u <= t THEN QRect(0, 0, 0, 0)
       ELSE QRect(l, t, r - l, u - t)

\* the overlap is the whole of the first rectangle
intersected_whole(a, b) ==
    LET l == Max(a.x, b.x)
        r == Min(a.x + a.w, b.x + b.w)
        t == Max(a.y, b.y)
        u == Min(a.y + a.h, b.y + b.h)
    IN IF r <= l \/ u <= t THEN QRect(0, 0, 0, 0)
       ELSE a

\* QRect.intersected(QRect): the null rectangle when they do not overlap
intersected(a, b) ==
    LET l == Max(a.x, b.x)
        r == Min(a.x + a.w, b.x + b.w)
        t == Max(a.y, b.y)
        u == Min(a.y + a.h, b.y + b.h)
    IN IF r <= l \/ u <= t THEN QRect(0, 0, 0, 0)
       ELSE QRect(l, t, r - l, u - t)

\* QRect.isEmpty()
isEmpty(r) == r.w <= 0 \/ r.h <= 0

\* the source offset is ignored
drawPixmap_unshifted(img, dx, dy, m, sx, sy, w, h) ==
    [p \in DOMAIN img |->
        IF /\ dx <= p[1] /\ p[1] < dx + w
           /\ dy <= p[2] /\ p[2] < dy + h
        THEN [m |-> m, x |-> p[1] - dx, y |-> p[2] - dy]
        ELSE img[p]]

\* what lies outside the drawn part is cleared
drawPixmap_clearing(img, dx, dy, m, sx, sy, w, h) ==
    [p \in DOMAIN img |->
        IF /\ dx <= p[1] /\ p[1] < dx + w
           /\ dy <= p[2] /\ p[2] < dy + h
        THEN [m |-> m, x |-> sx + (p[1] - dx), y |-> sy + (p[2] - dy)]
        ELSE Transparent]

\* QPainter.drawPixmap(dx, dy, pixmap, sx, sy, w, h) on the image img, the
\* pixmap being the buffer of monitor m
drawPixmap(img, dx, dy, m, sx, sy, w, h) ==
    [p \in DOMAIN img |->
        IF /\ dx <= p[1] /\ p[1] < dx + w
           /\ dy <= p[2] /\ p[2] < dy + h
        THEN [m |-> m, x |-> sx + (p[1] - dx), y |-> sy + (p[2] - dy)]
        ELSE img[p]]

\* the loop is left at the first monitor that is passed over
Skip_abort(j, m) ==
    [j EXCEPT !.skipped = @ \cup {m}, !.i = Len(j.shots) + 1]

\* a monitor is passed over ("Warning: ..."), the loop goes on
Skip(j, m) == [j EXCEPT !.skipped = @ \cup {m}, !.i = @ + 1]

\* finish_capture, "Composite the relevant parts from each screen": the
\* body of the loop for entry j.i of self.screenshots
CompositeFinish(j) ==
    LET screen_data == j.shots[j.i]
        geom == screen_data.geometry
        selection_rect == QRect(j.rect.x1, j.rect.y1, j.rect.width,
                                j.rect.height)
        overlap == intersected(selection_rect, geom)
        src_x == overlap.x - geom.x
        src_y == overlap.y - geom.y
        dst_x == overlap.x - j.rect.x1
        dst_y == overlap.y - j.rect.y1
    IN IF screen_data.null THEN Skip(j, screen_data.id)
       ELSE IF isEmpty(overlap) THEN [j EXCEPT !.i = @ + 1]
       ELSE IF /\ src_x >= 0 /\ src_y >= 0
               /\ src_x + overlap.w <= screen_data.pw
               /\ src_y + overlap.h <= screen_data.ph
       THEN [j EXCEPT !.i = @ + 1,
                      !.img = drawPixmap(@, dst_x, dst_y, screen_data.id,
                                         src_x, src_y, overlap.w, overlap.h)]
       ELSE Skip(j, screen_data.id)

\* the loop draws without the check of the source coordinates
CompositeDirect_unchecked(j) ==
    LET screen_data == j.shots[j.i]
        geom == screen_data.geometry
        selection_rect == QRect(j.rect.x1, j.rect.y1, j.rect.width,
                                j.rect.height)
        overlap == intersected(selection_rect, geom)
        src_x == overlap.x - geom.x
        src_y == overlap.y - geom.y
        dst_x == overlap.x - j.rect.x1
        dst_y == overlap.y - j.rect.y1
    IN IF screen_data.null THEN Skip(j, screen_data.id)
       ELSE IF isEmpty(overlap) THEN [j EXCEPT !.i = @ + 1]
       ELSE [j EXCEPT !.i = @ + 1,
                      !.img = drawPixmap(@, dst_x, dst_y, screen_data.id,
                                         src_x, src_y, overlap.w, overlap.h)]

\* capture_from_coordinates, the same loop over the screens just grabbed
CompositeDirect(j) ==
    LET screen_data == j.shots[j.i]
        geom == screen_data.geometry
        selection_rect == QRect(j.rect.x1, j.rect.y1, j.rect.width,
                                j.rect.height)
        overlap == intersected(selection_rect, geom)
        src_x == overlap.x - geom.x
        src_y == overlap.y - geom.y
        dst_x == overlap.x - j.rect.x1
        dst_y == overlap.y - j.rect.y1
    IN IF screen_data.null THEN Skip(j, screen_data.id)
       ELSE IF isEmpty(overlap) THEN [j EXCEPT !.i = @ + 1]
       ELSE IF /\ src_x >= 0 /\ src_y >= 0
               /\ src_x + overlap.w <= screen_data.pw
               /\ src_y + overlap.h <= screen_data.ph
       THEN [j EXCEPT !.i = @ + 1,
                      !.img = drawPixmap(@, dst_x, dst_y, screen_data.id,
                                         src_x, src_y, overlap.w, overlap.h)]
       ELSE Skip(j, screen_data.id)

\* the whole loop, from entry j.i on
RECURSIVE Composite(_)
Composite(j) ==
    IF j.i > Len(j.shots) THEN j
    ELSE Composite(IF j.by = "finish" THEN CompositeFinish(j)
                   ELSE CompositeDirect(j))

\* the compositing code entered with rectangle r and the snapshots shots
ComposeJob(by, r, shots) ==
    [kind |-> "compose", by |-> by, rect |-> r, shots |-> shots, i |-> 1,
     img |-> QPixmap(r.width, r.height), skipped |-> {}, sink |-> None]

\* monitor layouts, in the order the screens are listed: two monitors side
\* by side, the second at a negative origin; two monitors with a gap of two
\* columns between them, the second shifted up
Layouts ==
    LET M1 == [id |-> 1, g |-> QRect(0, 0, 12, 12)]
        M2 == [id |-> 2, g |-> QRect(-12, 0, 12, 12)]
        M3 == [id |-> 3, g |-> QRect(14, -2, 12, 12)]
    IN { <<M1, M2>>, <<M2, M1>>, <<M1, M3>>, <<M3, M1>> }

\* what grabWindow returned per monitor: the monitor's pixels, a null
\* pixmap, or a pixmap one column short of the geometry
BufferFaults ==
    { <<"ok", "ok">>, <<"null", "ok">>, <<"ok", "short">>,
      <<"short", "ok">> }

\* the entries of self.screenshots for layout L under the faults F
Shots(L, F) ==
    [k \in 1..Len(L) |->
        [id |-> L[k].id, geometry |-> L[k].g, null |-> (F[k] = "null"),
         pw |-> IF F[k] = "short" THEN L[k].g.w - 1 ELSE L[k].g.w,
         ph |-> L[k].g.h]]

\* the selections composited in the model, all above the minimum size
ComposeRects ==
    { Rect(x, y, x + w, y + 11) : x \in {-12, -6, 0, 1, 8}, y \in {0, 1},
                                  w \in {11, 12} }

ComposeJobs ==
    { ComposeJob(by, r, Shots(L, F)) :
        by \in {"finish", "rapid"}, r \in ComposeRects,
        L \in Layouts, F \in BufferFaults }

InitCompose == InitApp /\ job \in ComposeJobs

\* one turn of the loop of finish_capture
ComposeFinish ==
    /\ job.kind = "compose" /\ job.by = "finish"
    /\ job.i <= Len(job.shots)
    /\ job' = CompositeFinish(job)
    /\ UNCHANGED appvars

\* one turn of the loop of capture_from_coordinates
ComposeRapid ==
    /\ job.kind = "compose" /\ job.by = "rapid"
    /\ job.i <= Len(job.shots)
    /\ job' = CompositeDirect(job)
    /\ UNCHANGED appvars

\* "painter.end()" and "Process according to output mode"
ComposeOutput ==
    /\ job.kind = "compose"
    /\ job.i > Len(job.shots) /\ job.sink = None
    /\ job' = [job EXCEPT !.sink = Some(job.img)]
    /\ UNCHANGED appvars

NextCompose ==
    \/ ComposeFinish
    \/ ComposeRapid
    \/ ComposeOutput

SpecCompose == InitCompose /\ [][NextCompose]_vars

\* ------------------------------------------------- saving to fixed_location
\* the "fixed_location" branch of "Process according to output mode", the
\* same text in finish_capture and in capture_from_coordinates, run against
\* a save directory. A file name is the tuple of the numbers formatted into
\* it; job.dir is the set of names present in self.save_location.
MaxFiles == 3
MaxSaves == 2

\* f"capture_{x1}_{y1}_{width}x{height}.png"
BaseName(r) == << r.x1, r.y1, r.width, r.height >>

\* f"capture_{x1}_{y1}_{width}x{height}_{counter}.png"
NumberedName(r, counter) == << r.x1, r.y1, r.width, r.height, counter >>

\* filename, filepath and "counter = 1" before the loop
SaveJob(r, dir, k) ==
    [kind |-> "save", rect |-> r, dir |-> dir, before |-> dir,
     filepath |-> BaseName(r), counter |-> 1, phase |-> "search",
     saves |-> k]

\* os.path.exists(filepath)
exists(j) == j.filepath \in j.dir

\* the loop body without "counter += 1"
NextName_stuck(j) ==
    [j EXCEPT !.filepath = NumberedName(j.rect, j.counter)]

\* the loop body
NextName(j) ==
    [j EXCEPT !.filepath = NumberedName(j.rect, j.counter),
              !.counter = @ + 1]

\* selection.save(filepath, "PNG"); success = FALSE writes nothing
save(j, success) ==
    IF success
    THEN [j EXCEPT !.dir = @ \cup {j.filepath}, !.phase = "saved"]
    ELSE [j EXCEPT !.phase = "failed"]

\* the selections saved, and the directories they meet: any of the first
\* MaxFiles names of the first selection, and the plain name of the second
SaveRects == { Rect(5, 5, 105, 105), Rect(0, 0, 50, 60) }

Directories ==
    LET r == Rect(5, 5, 105, 105)
        names == {BaseName(r)} \cup
                 { NumberedName(r, n) : n \in 1..(MaxFiles - 1) }
    IN { S \cup T : S \in SUBSET names,
                    T \in SUBSET {BaseName(Rect(0, 0, 50, 60))} }

InitSave ==
    /\ InitApp
    /\ job \in { SaveJob(r, d, 1) : r \in SaveRects, d \in Directories }

\* one turn of "while os.path.exists(filepath)"
SaveProbe ==
    /\ job.kind = "save" /\ job.phase = "search"
    /\ exists(job)
    /\ job' = NextName(job)
    /\ UNCHANGED appvars

\* the loop is left and the image is written
SaveWrite ==
    /\ job.kind = "save" /\ job.phase = "search"
    /\ ~exists(job)
    /\ \E success \in BOOLEAN : job' = save(job, success)
    /\ UNCHANGED appvars

\* the next capture in fixed_location mode, into the same directory
SaveAgain ==
    /\ job.kind = "save" /\ job.phase # "search"
    /\ job.saves < MaxSaves
    /\ \E r \in SaveRects : job' = SaveJob(r, job.dir, job.saves + 1)
    /\ UNCHANGED appvars

NextSave ==
    \/ SaveProbe
    \/ SaveWrite
    \/ SaveAgain

\* the branch is straight-line code: once entered it keeps running
SpecSave == InitSave /\ [][NextSave]_vars /\ WF_vars(NextSave)

\* ------------------------------------------------------------- paintEvent
\* What an overlay paints for a selection: paintEvent of OverlayWidget and
\* of SimpleRectangleOverlay, run on an overlay of monitor job.screen with
\* the parent's begin and end points (or its own, for the preview overlay)
\* and the pointer at job.cursor.  job.frame is the rectangle drawn as the
\* frame, in the overlay's coordinates, or None.

\* the points are taken as they are, not made local to the monitor
toLocal_global(p, g) == p

\* "global_pos - screen_geom.topLeft()"
toLocal(p, g) == Pt(p.x - g.x, p.y - g.y)

\* QRect.isNull(): width and height are both 0
isNullRect(r) == r.w = 0 /\ r.h = 0

\* QRect.intersects(QRect), on the rectangles' left/right and top/bottom
\* edges x .. x + w - 1 and y .. y + h - 1
intersects(a, b) ==
    LET l1 == IF a.w < 0 THEN a.x + a.w - 1 ELSE a.x
        r1 == IF a.w < 0 THEN a.x ELSE a.x + a.w - 1
        l2 == IF b.w < 0 THEN b.x + b.w - 1 ELSE b.x
        r2 == IF b.w < 0 THEN b.x ELSE b.x + b.w - 1
        t1 == IF a.h < 0 THEN a.y + a.h - 1 ELSE a.y
        b1 == IF a.h < 0 THEN a.y ELSE a.y + a.h - 1
        t2 == IF b.h < 0 THEN b.y + b.h - 1 ELSE b.y
        b2 == IF b.h < 0 THEN b.y ELSE b.y + b.h - 1
    IN IF isNullRect(a) \/ isNullRect(b) THEN FALSE
       ELSE ~(l1 > r2 \/ l2 > r1) /\ ~(t1 > b2 \/ t2 > b1)

\* self.rect() of an overlay on monitor g
SurfaceRect(g) == QRect(0, 0, g.w, g.h)

\* "Create normalized rect" from the two local points
LocalRect(bl, el) ==
    QRect(Min(bl.x, el.x), Min(bl.y, el.y), Abs(el.x - bl.x),
          Abs(el.y - bl.y))

\* "Only draw if this rect intersects this overlay"
DrawIfIntersects(j, rect) ==
    [j EXCEPT !.done = TRUE,
              !.frame = IF intersects(rect, SurfaceRect(Screens[j.screen]))
                        THEN Some(rect) ELSE None]

\* OverlayWidget.paintEvent after the background is drawn
OverlayPaint(j) ==
    LET screen_geom == Screens[j.screen]
    IN IF j.mode = "fixed" /\ j.is_capturing
       THEN LET l == toLocal(j.cursor, screen_geom)
            IN DrawIfIntersects(j, QRect(l.x - (j.fw \div 2),
                                         l.y - (j.fh \div 2), j.fw, j.fh))
       ELSE IF /\ j.mode = "freehand" /\ j.is_capturing
               /\ ~isNull(j.begin) /\ ~isNull(j.end)
       THEN DrawIfIntersects(j, LocalRect(toLocal(j.begin, screen_geom),
                                          toLocal(j.end, screen_geom)))
       ELSE [j EXCEPT !.done = TRUE]

\* SimpleRectangleOverlay.paintEvent
PreviewPaint(j) ==
    DrawIfIntersects(j, LocalRect(toLocal(j.begin, Screens[j.screen]),
                                  toLocal(j.end, Screens[j.screen])))

\* the points of a selection and of the pointer in the model: on either
\* monitor, on the border between them, and the global origin
PaintPoints ==
    { Pt(-30, 5), Pt(-5, 5), Pt(-5, 25), Pt(10, 25), Pt(10, 5), Pt(0, 0) }

PaintJobs ==
    { [kind |-> "paint", widget |-> wm[1], mode |-> wm[2], screen |-> i,
       is_capturing |-> (wm[1] = "capture" /\ c),
       begin |-> b, end |-> e, cursor |-> e,
       fw |-> sz[1], fh |-> sz[2], done |-> FALSE, frame |-> None] :
        wm \in { <<"capture", "freehand">>, <<"capture", "fixed">>,
                 <<"preview", "none">> },
        i \in 1..Len(Screens), c \in BOOLEAN,
        b \in PaintPoints, e \in PaintPoints, sz \in SizeChoices }

InitPaint == InitApp /\ job \in PaintJobs

\* a capture overlay is painted
PaintOverlay ==
    /\ job.kind = "paint" /\ job.widget = "capture" /\ ~job.done
    /\ job' = OverlayPaint(job)
    /\ UNCHANGED appvars

\* a last-frame overlay is painted
PaintPreview ==
    /\ job.kind = "paint" /\ job.widget = "preview" /\ ~job.done
    /\ job' = PreviewPaint(job)
    /\ UNCHANGED appvars

NextPaint ==
    \/ PaintOverlay
    \/ PaintPreview

SpecPaint == InitPaint /\ [][NextPaint]_vars

\* ============================================================ properties
\* the state every begin request leaves alone when it is rejected
Untouched ==
    << is_overlay_operation_in_progress, is_capturing, capture_mode,
       global_begin, global_end, last_capture_begin, last_capture_end,
       last_capture_pixmap, show_last_frame, overlays, widgets, screenshots,
       visible, widthInput, heightInput, default_w, default_h, config,
       output_mode, toggleFrameBtn, rapidCaptureBtn, captureBtn,
       fixedCaptureBtn, timers, stack >>

\* C1: a begin request (Freehand, Fixed or Rapid) made while busy is set is
\* rejected and mutates nothing: capture mode, selection, overlays,
\* snapshots, LastCapture, the host's visibility and the saved configuration
\* stay as they are, and no deferred callback is scheduled.
C1_BusyRejected ==
    [][ev'.out = "busy" =>
          is_overlay_operation_in_progress /\ UNCHANGED Untouched]_vars

\* a Fixed begin is rejected while a Freehand session is arming, the size
\* inputs differing from the saved configuration
C1_Witness ==
    /\ ev.out = "busy" /\ ev.h = "start_fixed_capture"
    /\ is_overlay_operation_in_progress
    /\ capture_mode = "freehand"
    /\ config.default_w # widthInput

\* C2: from an accepted begin until the session is back at Idle the guard
\* stays closed, so no second begin and no Rapid re-capture passes it; at
\* most one deferred callback is pending and at most one session is Active.
C2_GuardClosedInSession ==
    /\ (is_capturing \/ timers # <<>>) => is_overlay_operation_in_progress
    /\ Len(timers) <= 1

\* the ways a session ends, as the handler that ends it reports them
SessionExits ==
    {"shown", "too_small", "empty", "failed", "cancelled", "error"}

C4_NoOrphanOverlay ==
    ev.out = "failed" =>
        (overlays = <<>> /\ VisibleOverlays("capture") = {})

\* C5: Escape on an overlay of an Active session ends at Idle: busy clear,
\* no overlay alive, the host shown, and neither an image composited or
\* delivered nor LastCapture assigned since the key was dispatched.
C5_EscapeCancels ==
    ev.out = "cancelled" =>
        /\ ~is_overlay_operation_in_progress /\ visible
        /\ overlays = <<>> /\ VisibleOverlays("capture") = {}
        /\ ~ev.io

\* C6: in the interactive finish and in the Rapid re-capture, a rectangle
\* with width <= 10 or height <= 10 is never composited and nothing of it
\* is delivered; what is composited has both dimensions above 10.
C6_SmallNeverComposed ==
    /\ ev.composed # None =>
          (ev.composed[1].rect.width > 10 /\ ev.composed[1].rect.height > 10)
    /\ ev.sink # None =>
          /\ ev.composed # None
          /\ ev.sink[1].rect.width > 10 /\ ev.sink[1].rect.height > 10

\* finish_capture was given a set selection exactly 10 wide and composited
\* and delivered nothing
C6_Witness ==
    /\ ev.fin # None /\ ~ev.fin[1].empty
    /\ ev.fin[1].rect.width = 10 /\ ev.fin[1].rect.height > 10
    /\ ev.composed = None /\ ev.sink = None

\* C7: LastCapture (begin, end, image) changes only in a session that
\* completes with a selection above the minimum size: a step that changes
\* it is a finish that composites.
C7_LastCaptureOnlyOnSuccess ==
    [][<< last_capture_begin, last_capture_end, last_capture_pixmap >>' #
         << last_capture_begin, last_capture_end, last_capture_pixmap >>
       => (ev'.composed # None /\ ev'.composed[1].by = "finish")]_vars

\* C8: for every begin/end pair, in any drag direction, the rectangle that
\* finish size-checks and composites is the axis-aligned normalization
\* (min and max per axis) of begin and end.
C8_FinishNormalizes ==
    (ev.fin # None /\ ~ev.fin[1].empty) =>
        ev.fin[1].rect = NormalizedRect(ev.fin[1].b, ev.fin[1].e)

\* C9: finish aborts as an empty selection exactly when begin or end was
\* not set by a pointer event of the session; a pair that was set goes on
\* to the size check whatever its coordinates.
C9_EmptyIffUnset ==
    ev.fin # None =>
        (ev.fin[1].empty <=> ~(ev.fin[1].set.b /\ ev.fin[1].set.e))

\* C10: a Rapid re-capture composites exactly the rectangle that the
\* session which recorded LastCapture composited.
C10_RapidSameRect ==
    (ev.composed # None /\ ev.composed[1].by = "rapid") =>
        lc_rect = Some(ev.composed[1].rect)

\* the handlers suspended in processEvents(), without their history flags
Suspended ==
    [i \in 1..Len(stack) |->
        [pc |-> stack[i].pc, todo |-> stack[i].todo, k |-> stack[i].k]]

\* C11: a Rapid re-capture creates no overlay and schedules no deferred
\* callback, and leaves busy, the overlays and LastCapture.begin/end as
\* they are; the rectangle it uses is the normalization of those points, so
\* consecutive re-captures use the same one.
C11_RapidLeavesSession ==
    [][(ev'.h = "start_rapid_capture" /\ ev'.out \in {"captured", "too_small"})
        => /\ UNCHANGED << is_overlay_operation_in_progress, overlays,
                           widgets, timers, last_capture_begin,
                           last_capture_end >>
           /\ Suspended' = Suspended
           /\ ev'.composed # None =>
                 ev'.composed[1].rect =
                     NormalizedRect(last_capture_begin[1],
                                    last_capture_end[1])]_vars

\* a re-capture of a selection drawn up and to the left, the preview
\* overlays being shown
C11_Witness ==
    /\ ev.h = "start_rapid_capture" /\ ev.out = "captured"
    /\ overlays # <<>>
    /\ last_capture_begin = Some(Pt(25, 30))
    /\ last_capture_end = Some(Pt(-20, 10))

\* C12: in every capture mode a monitor is grabbed only while the host is
\* hidden and no overlay of the tool is visible on it: no snapshot, stored
\* or composited, holds the tool's own UI.
C12_NoOwnUiInSnapshot ==
    /\ \A i \in 1..Len(screenshots) : ~screenshots[i].ui
    /\ ev.composed # None =>
          \A i \in 1..Len(ev.composed[1].shots) : ~ev.composed[1].shots[i].ui

\* the compositing loop has run over every monitor
ComposeDone == job.kind = "compose" /\ job.i > Len(job.shots)

\* the buffer of a snapshot holds the monitor's pixels, all of them
Sound(sd) ==
    ~sd.null /\ sd.pw = sd.geometry.w /\ sd.ph = sd.geometry.h

\* the global position (x, y) lies on the monitor of geometry g
OnMonitor(g, x, y) ==
    /\ g.x <= x /\ x < g.x + g.w
    /\ g.y <= y /\ y < g.y + g.h

\* the rectangle r lies on the monitor of geometry g
Inside(r, g) ==
    /\ g.x <= r.x1 /\ r.x1 + r.width <= g.x + g.w
    /\ g.y <= r.y1 /\ r.y1 + r.height <= g.y + g.h

\* the rectangle r and the monitor of geometry g share a pixel
Overlaps(r, g) ==
    \E x \in r.x1..(r.x1 + r.width - 1), y \in r.y1..(r.y1 + r.height - 1) :
        OnMonitor(g, x, y)

\* pixel p of the output is the pixel of snapshot sd at the same global
\* position
FromMonitor(p, sd) ==
    job.img[p] = [m |-> sd.id,
                  x |-> job.rect.x1 + p[1] - sd.geometry.x,
                  y |-> job.rect.y1 + p[2] - sd.geometry.y]

\* C13: when one monitor's geometry fully contains the selection, the
\* composed image is the exact crop of that monitor's buffer at offset
\* rect.origin - monitor.origin, of the rectangle's size, for any origin.
C13_SingleMonitorCrop ==
    ComposeDone =>
        \A k \in 1..Len(job.shots) :
            (Sound(job.shots[k]) /\ Inside(job.rect, job.shots[k].geometry))
            => /\ DOMAIN job.img = (0..(job.rect.width - 1)) \X
                                   (0..(job.rect.height - 1))
               /\ \A p \in DOMAIN job.img : FromMonitor(p, job.shots[k])

\* a selection inside the monitor at the negative origin, off its corner
C13_Witness ==
    /\ ComposeDone
    /\ \E k \in 1..Len(job.shots) :
          /\ Sound(job.shots[k])
          /\ Inside(job.rect, job.shots[k].geometry)
          /\ job.shots[k].geometry.x < 0
          /\ job.rect.y1 > job.shots[k].geometry.y

\* C14: for a selection spanning two non-overlapping monitors, every
\* output pixel whose global position lies on a monitor is that monitor's
\* buffer pixel at global position - monitor origin; no column or row at
\* the boundary is left out or taken from the other monitor.
C14_SpanningExact ==
    (/\ ComposeDone
     /\ \A k \in 1..Len(job.shots) :
           Sound(job.shots[k]) /\ Overlaps(job.rect, job.shots[k].geometry))
    => \A p \in DOMAIN job.img, k \in 1..Len(job.shots) :
           OnMonitor(job.shots[k].geometry,
                     job.rect.x1 + p[1], job.rect.y1 + p[2])
           => FromMonitor(p, job.shots[k])

\* a selection across the boundary of the two adjacent monitors
C14_Witness ==
    /\ ComposeDone
    /\ \A k \in 1..Len(job.shots) :
          Sound(job.shots[k]) /\ Overlaps(job.rect, job.shots[k].geometry)
    /\ \E k \in 1..Len(job.shots) : job.shots[k].geometry.x = -12
    /\ job.img[<<5, 0>>].m = 2 /\ job.img[<<6, 0>>].m = 1

\* C15: the composed image has exactly the rectangle's width and height,
\* and every output pixel whose global position lies on no monitor (a gap
\* between monitors, for one) is fully transparent.
C15_SizeAndTransparency ==
    job.kind = "compose" =>
        /\ DOMAIN job.img = (0..(job.rect.width - 1)) \X
                            (0..(job.rect.height - 1))
        /\ ComposeDone =>
              \A p \in DOMAIN job.img :
                  (\A k \in 1..Len(job.shots) :
                      ~OnMonitor(job.shots[k].geometry,
                                 job.rect.x1 + p[1], job.rect.y1 + p[2]))
                  => job.img[p] = Transparent

\* a selection over the gap between two monitors, with pixels of both
C15_Witness ==
    /\ ComposeDone
    /\ job.rect.x1 = 8 /\ job.rect.width = 12
    /\ \E k \in 1..Len(job.shots) : job.shots[k].geometry.x = 14
    /\ job.img[<<3, 0>>].m = 1
    /\ job.img[<<4, 0>>] = Transparent
    /\ job.img[<<6, 0>>].m = 3

\* the loop run over the snapshots that were not passed over
WithoutSkipped ==
    Composite(ComposeJob(job.by, job.rect,
                         SelectSeq(job.shots,
                                   LAMBDA sd : sd.id \notin job.skipped)))

\* C16: when a monitor fails the source-bounds validation or has an
\* invalid buffer, only its contribution is left out: the image is the one
\* composed from the other monitors alone, and the loop runs to its end.
C16_FailureIsolated ==
    ComposeDone =>
        /\ job.img = WithoutSkipped.img
        /\ \A k \in 1..Len(job.shots) :
              (Sound(job.shots[k]) /\ Overlaps(job.rect, job.shots[k].geometry))
              => \E p \in DOMAIN job.img : job.img[p].m = job.shots[k].id

\* the first monitor listed is passed over, the second one is drawn
C16_Witness ==
    /\ ComposeDone
    /\ job.skipped = {job.shots[1].id}
    /\ \E p \in DOMAIN job.img : job.img[p].m = job.shots[2].id

\* C17: when an error occurs while compositing (a monitor fails the
\* bounds validation or has an invalid buffer), no image is delivered to
\* the output; an image lacking a monitor's contribution never is.
C17_NoPartialDelivery ==
    (job.kind = "compose" /\ job.sink # None) => job.skipped = {}

\* the snapshots in the opposite order
Reversed ==
    [k \in 1..Len(job.shots) |-> job.shots[Len(job.shots) + 1 - k]]

\* C18: with pairwise non-overlapping monitor geometries the composed
\* image is the same for every order the monitors are processed in.
C18_OrderIndependent ==
    ComposeDone =>
        job.img = Composite(ComposeJob(job.by, job.rect, Reversed)).img

\* both monitors contributed to the image
C18_Witness ==
    /\ ComposeDone /\ job.skipped = {}
    /\ \E p, q \in DOMAIN job.img :
          job.img[p].m = job.shots[1].id /\ job.img[q].m = job.shots[2].id

\* C19: in fixed mode the rectangle that a press commits and
\* finish_capture composites is exactly as wide and as high as the fixed
\* size of the overlay that was pressed.
C19_FixedExactSize ==
    [][(ev'.h = "mousePressEvent" /\ ev'.composed # None)
        => \E id \in DOMAIN widgets :
              /\ widgets[id].mode = "fixed"
              /\ ev'.composed[1].rect.width = widgets[id].fw
              /\ ev'.composed[1].rect.height = widgets[id].fh]_vars

\* the k-th name of the sequence: the plain name, then _1, _2, ...
NameAt(r, k) == IF k = 0 THEN BaseName(r) ELSE NumberedName(r, k)

\* C20: in fixed_location mode the image is written to the first name of
\* capture_{x}_{y}_{w}x{h}.png, .._1.png, .._2.png, ... that is not in the
\* save directory, no file that was there is written over, and the search
\* for the name ends.
C20_FirstFreeName ==
    /\ [](job.phase = "saved" =>
            \E k \in 0..(MaxFiles + MaxSaves) :
                /\ job.filepath = NameAt(job.rect, k)
                /\ job.filepath \notin job.before
                /\ \A i \in 0..(k - 1) : NameAt(job.rect, i) \in job.before
                /\ job.dir = job.before \cup {job.filepath})
    /\ (job.phase = "search") ~> (job.phase # "search")

\* the plain name and _1 were there: the image went to _2
C20_Witness ==
    /\ job.kind = "save" /\ job.phase = "saved"
    /\ job.rect = Rect(5, 5, 105, 105)
    /\ job.before = {BaseName(job.rect), NumberedName(job.rect, 1)}
    /\ job.filepath = NumberedName(job.rect, 2)

\* the session is Idle: the guard is open and no handler is under way
Idle == ~is_overlay_operation_in_progress /\ stack = <<>>

\* the capture overlays that exist: listed in self.overlays or still shown
LiveCaptureOverlays ==
    {id \in DOMAIN widgets :
        /\ widgets[id].kind = "capture"
        /\ widgets[id].vis \/ id \in Range(overlays)}

\* C21: whenever the session is Idle (busy clear, no handler running) no
\* capture overlay is live and no monitor snapshot is retained.
C21_IdleHoldsNothing ==
    Idle => (LiveCaptureOverlays = {} /\ screenshots = <<>>)

C23_ToggleIsNoSession ==
    [][ev'.h = "toggle_last_frame"
        => /\ UNCHANGED << is_overlay_operation_in_progress, screenshots,
                           last_capture_begin, last_capture_end,
                           last_capture_pixmap, global_begin, global_end,
                           capture_mode, is_capturing, timers >>
           /\ ev'.composed = None /\ ev'.sink = None]_vars

\* the preview was switched on over a finished capture
C23_Witness ==
    /\ ev.h = "toggle_last_frame" /\ ev.out = "on"
    /\ show_last_frame /\ VisibleOverlays("preview") # {}
    /\ last_capture_begin # None

\* begin, or end, of the selection holds a point: a pointer event assigned
\* it, or it holds a point other than the null point (start_rapid_capture
\* copies the corners of the last capture into both)
BeginSet == sel_set.b \/ ~isNull(global_begin)
EndSet == sel_set.e \/ ~isNull(global_end)

\* C24: in every state of an Active session the selection's begin and end
\* are either both set or both unset; end is never set while begin is not.
C24_BeginBeforeEnd ==
    is_capturing => (BeginSet <=> EndSet)

\* a drag under way: begin from the press, end moved on
C24_Witness ==
    /\ is_capturing /\ capture_mode = "freehand"
    /\ sel_set.b /\ sel_set.e
    /\ global_begin = Pt(-20, 10) /\ global_end = Pt(25, 30)

\* a step in which mouseReleaseEvent was dispatched and acted: it took
\* its except path, or it went into a teardown or into finish_capture and
\* is now suspended there
ReleaseActed ==
    /\ ev'.h = "mouseReleaseEvent"
    /\ \/ ev'.out = "error"
       \/ Len(stack') = Len(stack) + 1

\* C25: in Freehand mode a press on the overlay's monitor sets begin and
\* end to the press position, a move sets only end and only after a
\* press, and a release sets end and calls finish.
C25_FreehandProtocol ==
    [][/\ ev'.out = "pressed" =>
             /\ global_begin' = global_end'
             /\ global_begin' \in PressPositions
             /\ sel_set'.b /\ sel_set'.e
       /\ ev'.out = "moved" =>
             /\ sel_set.b /\ sel_set'.e
             /\ global_begin' = global_begin
       /\ ReleaseActed => (sel_set'.e /\ ev'.fin # None)]_vars

C27_OverlayPerMonitor ==
    is_capturing =>
        /\ Len(overlays) = Len(Screens)
        /\ Len(screenshots) = Len(Screens)
        /\ \A i \in 1..Len(overlays) :
              /\ overlays[i] \in DOMAIN widgets
              /\ widgets[overlays[i]].kind = "capture"
              /\ Screens[widgets[overlays[i]].screen] = screenshots[i].geometry
              /\ \A j \in 1..Len(overlays) :
                    i # j => widgets[overlays[i]].screen #
                             widgets[overlays[j]].screen

\* C28: from the entry to Active until the teardown no event changes the
\* monitor snapshots: the creation of the overlays enters Active with one
\* snapshot per monitor, no other step between two Active states changes
\* them, and finish_capture composites exactly them.
C28_SnapshotsReadOnly ==
    [][/\ (ev'.h = "_create_overlays" /\ ev'.out = "active") =>
              /\ is_capturing'
              /\ Len(screenshots') = Len(Screens)
              /\ \A i \in 1..Len(Screens) :
                    screenshots'[i].geometry = Screens[i]
       /\ (~is_capturing /\ is_capturing') =>
              (ev'.h = "_create_overlays" /\ ev'.out = "active")
       /\ (is_capturing /\ is_capturing'
           /\ ~(ev'.h = "_create_overlays" /\ ev'.out = "active")) =>
              screenshots' = screenshots
       /\ (ev'.composed # None /\ ev'.composed[1].by = "finish") =>
              /\ is_capturing
              /\ ev'.composed[1].shots = screenshots
              /\ Len(screenshots) = Len(Screens)]_vars

\* a drag was released and composited from the two snapshots
C28_Witness ==
    /\ ev.h = "mouseReleaseEvent"
    /\ ev.composed # None /\ ev.composed[1].by = "finish"
    /\ Len(ev.composed[1].shots) = 2
    /\ ev.composed[1].shots[2].geometry.x = -40

\* the rectangle of the selection being painted, in global coordinates:
\* the fixed size centred on the pointer, or the normalization of begin
\* and end
GlobalRect ==
    IF job.mode = "fixed"
    THEN QRect(job.cursor.x - (job.fw \div 2), job.cursor.y - (job.fh \div 2),
               job.fw, job.fh)
    ELSE QRect(Min(job.begin.x, job.end.x), Min(job.begin.y, job.end.y),
               Max(job.begin.x, job.end.x) - Min(job.begin.x, job.end.x),
               Max(job.begin.y, job.end.y) - Min(job.begin.y, job.end.y))

\* the rectangle r, its edges included, reaches into the monitor g
Touches(r, g) ==
    /\ \E x \in r.x..(r.x + r.w) : g.x <= x /\ x <= g.x + g.w - 1
    /\ \E y \in r.y..(r.y + r.h) : g.y <= y /\ y <= g.y + g.h - 1

\* C29: the frame an overlay draws is the session's global rectangle moved
\* by the origin of the overlay's monitor, and it is drawn only if that
\* rectangle reaches into the overlay's surface; an overlay whose monitor
\* the rectangle does not touch draws no frame.
C29_PreviewIsTranslated ==
    (job.kind = "paint" /\ job.done) =>
        LET g == Screens[job.screen]
        IN /\ job.frame # None =>
                 /\ job.frame[1] = QRect(GlobalRect.x - g.x, GlobalRect.y - g.y,
                                         GlobalRect.w, GlobalRect.h)
                 /\ Touches(GlobalRect, g)
           /\ ~Touches(GlobalRect, g) => job.frame = None

\* a drag from the primary monitor into the one at its left: the overlay
\* of the left monitor draws the frame in its own coordinates
C29_Witness ==
    /\ job.kind = "paint" /\ job.done /\ job.mode = "freehand"
    /\ job.begin = Pt(10, 25) /\ job.end = Pt(-30, 5)
    /\ job.screen = 2
    /\ job.frame = Some(QRect(10, 5, 40, 20))

\* C30: every snapshot is taken while its monitor's own new overlay is
\* not yet shown, and is_capturing becomes true only in a step that leaves
\* one shown overlay and one snapshot for every monitor; a creation that
\* fails part-way leaves is_capturing false.
C30_GrabBeforeShow ==
    [][/\ \A i \in 1..Len(screenshots') : ~screenshots'[i].own
       /\ (~is_capturing /\ is_capturing') =>
             /\ ev'.h = "_create_overlays"
             /\ Len(overlays') = Len(Screens)
             /\ Len(screenshots') = Len(Screens)
             /\ \A i \in 1..Len(Screens) :
                   /\ widgets'[overlays'[i]].vis
                   /\ widgets'[overlays'[i]].screen = i
       /\ ev'.out = "failed" => ~is_capturing']_vars

\* a session has just become active on both monitors
C30_Witness ==
    /\ ev.h = "_create_overlays" /\ ev.out = "active"
    /\ is_capturing
    /\ Len(screenshots) = Len(Screens)
    /\ \A i \in 1..Len(Screens) :
          ~screenshots[i].own /\ widgets[overlays[i]].vis

\* C31: the last-frame toggle button becomes enabled only in a session that
\* composited a valid selection; a session whose selection was rejected as
\* too small does not enable it.
C31_ToggleAfterCapture ==
    [][(~toggleFrameBtn /\ toggleFrameBtn') => lc_rect' # None]_vars

\* a finish_capture of the session has composited and is suspended in its
\* teardown, no begin request accepted since
FinishedOnce ==
    /\ lc_rect # None
    /\ \E i \in 1..Len(stack) :
          /\ stack[i].k = "finish_main" /\ stack[i].pc = "cleanup"
          /\ ~stack[i].nb

\* C32: between a begin and the return to Idle the compositor runs at most
\* once and at most one image is delivered: no finish_capture composites
\* or delivers while an earlier one of the session, which composited, is
\* tearing the overlays down.
C32_ComposeOnce ==
    [][FinishedOnce => (ev'.composed = None /\ ev'.sink = None)]_vars

\* C33: when the creation of the overlays brings a session to Active, the
\* selection's begin and end are both unset: both hold the null point and
\* neither was assigned by a pointer event.
C33_ActiveStartsUnset ==
    [][(ev'.h = "_create_overlays" /\ ev'.out = "active") =>
          /\ global_begin' = QPoint /\ global_end' = QPoint
          /\ ~sel_set'.b /\ ~sel_set'.e]_vars

\* C34: in every state the Rapid button is enabled exactly when the
\* last-frame preview is on, the Freehand and Fixed buttons exactly when it
\* is off, and an enabled Rapid button finds LastCapture's begin and end
\* set.
C34_ButtonsFollowPreview ==
    /\ rapidCaptureBtn <=> show_last_frame
    /\ captureBtn <=> ~show_last_frame
    /\ fixedCaptureBtn <=> ~show_last_frame
    /\ rapidCaptureBtn =>
          (last_capture_begin # None /\ last_capture_end # None)

\* the preview was switched on: Rapid is enabled, Freehand and Fixed are not
C34_Witness ==
    /\ ev.h = "toggle_last_frame" /\ ev.out = "on"
    /\ show_last_frame /\ rapidCaptureBtn
    /\ ~captureBtn /\ ~fixedCaptureBtn
    /\ last_capture_begin # None /\ last_capture_end # None

\* self.overlays holds overlays of both classes
MixedOverlays ==
    \E i, j \in Range(overlays) \cap DOMAIN widgets :
        widgets[i].kind = "capture" /\ widgets[j].kind = "preview"

\* the shown overlays of a kind are still shown after the step
StillShown(kind) ==
    \A id \in VisibleOverlays(kind) :
        id \in DOMAIN widgets' /\ widgets'[id].vis

\* C35: self.overlays never holds capture overlays and last-frame preview
\* overlays together, the busy guard is never set while the preview is on,
\* and a teardown of one kind leaves the shown overlays of the other kind
\* shown: the toggle closes no capture overlay, and no other handler
\* closes a preview overlay.
C35_KindsApart ==
    /\ [](~MixedOverlays)
    /\ [](~(is_overlay_operation_in_progress /\ show_last_frame))
    /\ [][/\ ev'.h = "toggle_last_frame" => StillShown("capture")
          /\ ev'.h # "toggle_last_frame" => StillShown("preview")]_vars

\* the image the other of the two compositing loops yields for the
\* rectangle and the snapshots of the run under way
OtherLoop ==
    Composite(ComposeJob(IF job.by = "finish" THEN "rapid" ELSE "finish",
                         job.rect, job.shots))

\* C36: for the same rectangle and the same monitor geometries and
\* buffers the compositing loop of finish_capture and the one of
\* capture_from_coordinates yield the same image (and pass over the same
\* monitors), and the same image is handed to the output.
C36_LoopsAgree ==
    /\ ComposeDone =>
          /\ job.img = OtherLoop.img
          /\ job.skipped = OtherLoop.skipped
    /\ (job.kind = "compose" /\ job.sink # None) =>
          job.sink = Some(OtherLoop.img)

\* capture_from_coordinates has composited a selection that spans both
\* monitors, one of them with a buffer that is a column short
C36_Witness ==
    /\ ComposeDone /\ job.by = "rapid" /\ job.sink # None
    /\ job.skipped # {}
    /\ \E p \in DOMAIN job.img : job.img[p].m # 0
    /\ \E p \in DOMAIN job.img : job.img[p] = Transparent
    /\ job.img = OtherLoop.img

\* the snapshot the compositing loop is at, and its overlap with the
\* selection
CurShot == job.shots[job.i]

CurOverlap ==
    intersected(QRect(job.rect.x1, job.rect.y1, job.rect.width,
                      job.rect.height),
                CurShot.geometry)

\* the loop is at a monitor with a valid buffer that the selection overlaps
AtOverlap ==
    /\ job.kind = "compose" /\ job.i <= Len(job.shots)
    /\ ~CurShot.null /\ ~isEmpty(CurOverlap)

FullBuffer ==
    CurShot.pw = CurShot.geometry.w /\ CurShot.ph = CurShot.geometry.h

\* C37: for a monitor whose buffer has the width and height of its
\* geometry the validation of the source block never fails (the source
\* offset is not negative and offset plus overlap size is within the
\* buffer), so the monitor is drawn and not passed over; and every block
\* that is drawn lies inside the output image (the destination offset is
\* not negative and offset plus overlap size is within the rectangle's
\* size).
C37_BlitInBounds ==
    [][AtOverlap =>
          LET src_x == CurOverlap.x - CurShot.geometry.x
              src_y == CurOverlap.y - CurShot.geometry.y
              dst_x == CurOverlap.x - job.rect.x1
              dst_y == CurOverlap.y - job.rect.y1
          IN /\ FullBuffer =>
                   /\ src_x >= 0 /\ src_y >= 0
                   /\ src_x + CurOverlap.w <= CurShot.pw
                   /\ src_y + CurOverlap.h <= CurShot.ph
                   /\ job'.skipped = job.skipped
                   /\ job'.img # job.img
             /\ job'.img # job.img =>
                   /\ dst_x >= 0 /\ dst_y >= 0
                   /\ dst_x + CurOverlap.w <= job.rect.width
                   /\ dst_y + CurOverlap.h <= job.rect.height]_vars

\* a selection across two monitors with full buffers, the second at a
\* negative origin, has been composited from both and neither was passed
\* over
C37_Witness ==
    /\ ComposeDone /\ job.skipped = {}
    /\ \A k \in 1..Len(job.shots) :
          /\ ~job.shots[k].null
          /\ job.shots[k].pw = job.shots[k].geometry.w
    /\ \E k \in 1..Len(job.shots) : job.shots[k].geometry.x < 0
    /\ \E p, q \in DOMAIN job.img :
          job.img[p].m = 1 /\ job.img[q].m = 2

\* the handler's result t differs from the current state in nothing but
\* the record of what ran last
Same(t) == [t EXCEPT !.ev = ev] = Cur

\* C38: while is_capturing is False a pointer press, move or release and
\* an Escape key press delivered to a shown capture overlay leave the
\* whole state as it is (selection, busy guard, overlays, snapshots,
\* last capture, visibility of the host), whatever the position and
\* whether or not the monitor can be queried; the tick of a Fixed-mode
\* overlay's update timer leaves it as it is as well.
C38_IgnoredWhenNotCapturing ==
    \A id \in VisibleOverlays("capture") :
        /\ ~is_capturing =>
              /\ \A pos \in PressPositions, ok \in BOOLEAN, o \in Outcomes :
                    Same(mousePressEvent(Fresh(Cur), id, pos, ok, o[1], o[2]))
              /\ \A pos \in CursorPositions, ok \in BOOLEAN :
                    Same(mouseMoveEvent(Fresh(Cur), id, pos, ok))
              /\ \A pos \in CursorPositions, ok \in BOOLEAN, o \in Outcomes :
                    Same(mouseReleaseEvent(Fresh(Cur), id, pos, ok,
                                           o[1], o[2]))
              /\ Same(keyPressEvent(Fresh(Cur), id))
        /\ id \in Tickers => Same(update(Fresh(Cur), id))

\* no session is capturing, the host is shown, and a Fixed-mode capture
\* overlay is still on a monitor with its update timer running: the
\* deferred _create_overlays failed after it had shown the overlay
C38_Witness ==
    /\ ~is_capturing /\ visible /\ stack = <<>>
    /\ ev.h = "_create_overlays" /\ ev.out = "failed"
    /\ VisibleOverlays("capture") \cap Tickers # {}
    /\ screenshots # <<>>

\* the preview overlays that exist: listed in self.overlays or still shown
LivePreviewOverlays ==
    {id \in DOMAIN widgets :
        /\ widgets[id].kind = "preview"
        /\ widgets[id].vis \/ id \in Range(overlays)}

\* the toggle run twice in a row from the current state
ToggledTwice == toggle_last_frame(Fresh(toggle_last_frame(Fresh(Cur))))

\* C39: when the preview has just been toggled on and the next handler to
\* run is the toggle again (the button, or Escape on a preview overlay),
\* it toggles off and leaves the preview flag off, no preview overlay
\* listed or shown, Rapid disabled and Freehand and Fixed enabled, as
\* before the first toggle; and wherever the toggle is enabled with the
\* preview off and self.overlays empty, two toggles in a row give back
\* the very state they started from.
C39_ToggleTwiceRestores ==
    /\ [][(/\ ev.h = "toggle_last_frame" /\ ev.out = "on"
           /\ ev'.h = "toggle_last_frame") =>
             /\ ev'.out = "off"
             /\ ~show_last_frame'
             /\ LivePreviewOverlays' = {}
             /\ overlays' = <<>>
             /\ ~rapidCaptureBtn' /\ captureBtn' /\ fixedCaptureBtn']_vars
    /\ []((toggleFrameBtn /\ ~show_last_frame /\ overlays = <<>>) =>
             Same(ToggledTwice))

\* the first toggle has switched the preview on, with a preview overlay
\* shown on each monitor, and the second toggle can follow at once: the
\* host with its toggle button is shown and Escape can reach a preview
\* overlay
C39_Witness ==
    /\ ev.h = "toggle_last_frame" /\ ev.out = "on"
    /\ visible /\ toggleFrameBtn /\ stack = <<>>
    /\ Cardinality(VisibleOverlays("preview")) = Len(Screens)
    /\ ENABLED ClickToggle /\ ENABLED PreviewEscape

====
